---- MODULE Spec2Model ----
(***************************************************************************)
(* Model of intake/gui/catalog/add.py (FileSelector, URLSelector,          *)
(* CatAdder) and intake/gui/__init__.py (do_import, InstanceMaker).        *)
(*                                                                         *)
(* Python strings are sequences of one-character strings, so that          *)
(* endswith, rstrip, dirname and join are computed as os.path computes     *)
(* them.  Widget values are fields of the record gui; a handler is an      *)
(* operator from the record before the call to the record after it, with   *)
(* the watchers that the assignment of a watched value fires run inside    *)
(* it, in registration order, exactly when the value changes (param's      *)
(* onlychanged watchers).                                                  *)
(***************************************************************************)
EXTENDS Integers, Sequences, FiniteSets, TLC

VARIABLES gui, last, panel_env, instance, imports, accesses, outcome

vars == <<gui, last, panel_env, instance, imports, accesses, outcome>>
guiVars == <<gui, last>>
proxyVars == <<panel_env, instance, imports, accesses, outcome>>

(***************************************************************************)
(* Bounds of the model.                                                    *)
(***************************************************************************)
\* largest number of entries one selection event of the list carries
MaxSel == 2
\* longest text of the path field (navigation can lengthen it without end)
MaxPath == 5
\* largest number of uses of the lazy proxy in one run
MaxAccess == 3

(***************************************************************************)
(* Python values: str, list, None; results: a returned value or a raised   *)
(* exception.                                                              *)
(***************************************************************************)
PyStr(s) == [t |-> "str", v |-> s]
PyList(l) == [t |-> "list", v |-> l]
PyNone == [t |-> "None", v |-> <<>>]
Return(x) == [raised |-> "none", v |-> x]
Raise(e) == [raised |-> e, v |-> PyNone]

(***************************************************************************)
(* Strings.                                                                *)
(***************************************************************************)
sep == "/"

Ord(c) ==
    CASE c = "." -> 46 [] c = "/" -> 47 [] c = ":" -> 58
      [] c = "a" -> 97 [] c = "b" -> 98 [] c = "c" -> 99 [] c = "d" -> 100
      [] c = "e" -> 101 [] c = "g" -> 103 [] c = "h" -> 104 [] c = "l" -> 108
      [] c = "m" -> 109 [] c = "s" -> 115 [] c = "t" -> 116 [] c = "x" -> 120
      [] c = "y" -> 121 [] c = "z" -> 122

endswith(s, suf) ==
    /\ Len(suf) <= Len(s)
    /\ SubSeq(s, Len(s) - Len(suf) + 1, Len(s)) = suf

startswith(s, pre) ==
    /\ Len(pre) <= Len(s)
    /\ SubSeq(s, 1, Len(pre)) = pre

RECURSIVE rstrip(_, _)
rstrip(s, c) ==
    IF Len(s) > 0 /\ s[Len(s)] = c THEN rstrip(SubSeq(s, 1, Len(s) - 1), c) ELSE s

\* str.rfind(c) + 1: the 1-based position of the last c, 0 when there is none
rfind1(s, c) ==
    IF \E i \in 1..Len(s) : s[i] = c
    THEN CHOOSE i \in 1..Len(s) : s[i] = c /\ \A j \in (i + 1)..Len(s) : s[j] # c
    ELSE 0

RECURSIVE StrLess(_, _)
StrLess(a, b) ==
    IF Len(a) = 0 THEN Len(b) > 0
    ELSE IF Len(b) = 0 THEN FALSE
    ELSE IF a[1] # b[1] THEN Ord(a[1]) < Ord(b[1])
    ELSE StrLess(Tail(a), Tail(b))

RECURSIVE sorted(_)
sorted(S) ==
    IF S = {} THEN <<>>
    ELSE LET m == CHOOSE x \in S : \A y \in S \ {x} : StrLess(x, y)
         IN <<m>> \o sorted(S \ {m})

(***************************************************************************)
(* os.path (posixpath).                                                    *)
(***************************************************************************)
os_path_dirname(p) ==
    LET i == rfind1(p, sep)
        head == SubSeq(p, 1, i)
    IN IF Len(head) > 0 /\ \E k \in 1..Len(head) : head[k] # sep
       THEN rstrip(head, sep) ELSE head

\* os.path.join(a, b) of two strings
joinstr(a, b) ==
    IF startswith(b, <<sep>>) THEN b
    ELSE IF Len(a) = 0 \/ endswith(a, <<sep>>) THEN a \o b
    ELSE a \o <<sep>> \o b

\* os.path.join(a, b) where a is a str and b any value: a non-str b is a TypeError
os_path_join(a, b) ==
    IF b.t = "str" THEN Return(PyStr(joinstr(a, b.v))) ELSE Raise("TypeError")

(***************************************************************************)
(* The file system the widgets browse: directories and files are given by  *)
(* their components below the root.  The process's working directory is    *)
(* /a.                                                                     *)
(*     /a/     .g/  .h.yml  b/  b.yml  c.yaml  e.txt                       *)
(*     /a/b/   d.yaml                                                      *)
(***************************************************************************)
nA == <<"a">>
nB == <<"b">>
nDotG == <<".", "g">>
nDotH == <<".", "h", ".", "y", "m", "l">>
nBYml == <<"b", ".", "y", "m", "l">>
nCYaml == <<"c", ".", "y", "a", "m", "l">>
nETxt == <<"e", ".", "t", "x", "t">>
nDYaml == <<"d", ".", "y", "a", "m", "l">>

FsDirs == {<<>>, <<nA>>, <<nA, nB>>, <<nA, nDotG>>}
FsFiles == {<<nA, nDotH>>, <<nA, nBYml>>, <<nA, nCYaml>>, <<nA, nETxt>>,
            <<nA, nB, nDYaml>>}

os_getcwd == <<sep>> \o nA

\* p.split('/')
RECURSIVE split(_, _)
split(p, cur) ==
    IF Len(p) = 0 THEN <<cur>>
    ELSE IF p[1] = sep THEN <<cur>> \o split(Tail(p), <<>>)
    ELSE split(Tail(p), Append(cur, p[1]))

\* the components a path names, '' and '.' dropped and '..' followed
RECURSIVE resolve(_, _)
resolve(parts, at) ==
    IF Len(parts) = 0 THEN at
    ELSE IF parts[1] = <<>> \/ parts[1] = <<".">> THEN resolve(Tail(parts), at)
    ELSE IF parts[1] = <<".", ".">>
         THEN resolve(Tail(parts), IF Len(at) = 0 THEN at ELSE SubSeq(at, 1, Len(at) - 1))
    ELSE resolve(Tail(parts), Append(at, parts[1]))

components(p) ==
    IF startswith(p, <<sep>>) THEN resolve(split(p, <<>>), <<>>)
    ELSE resolve(split(p, <<>>), resolve(split(os_getcwd, <<>>), <<>>))

\* the path walks only through directories (a file followed by '/' names nothing)
walkable(p) ==
    LET parts == split(p, <<>>)
    IN \A i \in 1..(Len(parts) - 1) :
          LET pre == SubSeq(parts, 1, i)
              at == IF startswith(p, <<sep>>) THEN resolve(pre, <<>>)
                    ELSE resolve(pre, resolve(split(os_getcwd, <<>>), <<>>))
          IN at \in FsDirs

os_path_isdir(p) == Len(p) > 0 /\ walkable(p) /\ components(p) \in FsDirs

os_path_isfile(p) == Len(p) > 0 /\ walkable(p) /\ components(p) \in FsFiles

os_listdir(p) ==
    LET d == components(p)
    IN {e[Len(e)] : e \in {x \in FsDirs \cup FsFiles :
                              Len(x) = Len(d) + 1 /\ SubSeq(x, 1, Len(d)) = d}}

(***************************************************************************)
(* FileSelector.                                                           *)
(*   gui.path_text      path_text.value                                    *)
(*   gui.fs_validator   validator.object is the error icon                 *)
(*   gui.main_value     main.value (a list of entries)                     *)
(*   gui.main_options   main.options (the keys, in order)                  *)
(* CatAdder and URLSelector.                                               *)
(*   gui.url_value      url.main.value                                     *)
(*   gui.widget_disabled, gui.active (tabs.active), gui.validator,         *)
(*   gui.visible, gui.watching (CatAdder's watchers are registered)        *)
(* What a call leaves behind for its caller.                               *)
(*   gui.called  the calls of CatAdder.done_callback made in this call,    *)
(*               each with the catalog it got and the visible flag it saw  *)
(*   gui.opened  the number of calls of intake.open_catalog in this call   *)
(*   gui.fired   the values FileSelector.done_callback got in this call    *)
(*   gui.err     the exception this call raised, "none" if it returned     *)
(***************************************************************************)
filters == << <<"y", "a", "m", "l">>, <<"y", "m", "l">> >>

path(w) ==
    IF endswith(w.path_text, <<sep>>) THEN w.path_text ELSE w.path_text \o <<sep>>

selected(w) ==
    IF Len(w.main_value) > 0 THEN PyStr(w.main_value[1]) ELSE PyList(<<>>)

url(w) ==
    IF selected(w) # PyNone THEN os_path_join(path(w), selected(w)) ELSE Return(PyNone)

\* enable_widget(widget, enable): widget.disabled = not enable
enable_widget(w, enable) ==
    [w EXCEPT !.widget_disabled = ~enable]

\* FileSelector.done_callback = partial(enable_widget, self.widget)
fs_done_callback(w, b) ==
    [enable_widget(w, b) EXCEPT !.fired = Append(@, b)]

validate_sticky(w) ==
    IF os_path_isdir(path(w)) THEN w
    ELSE [w EXCEPT !.fs_validator = TRUE]

validate(w) ==
    IF os_path_isdir(path(w)) THEN [w EXCEPT !.fs_validator = FALSE]
    ELSE [w EXCEPT !.fs_validator = TRUE]

remove_error(w) ==
    [w EXCEPT !.validator = FALSE]

option_of_shows_hidden(p, f) ==
    IF os_path_isdir(joinstr(p, f)) THEN <<f \o <<sep>>>>
    ELSE IF \E i \in 1..Len(filters) : endswith(f, filters[i]) THEN <<f>>
    ELSE <<>>

\* the loop body of make_options for one name f of the listing of p
option_of(p, f) ==
    IF startswith(f, <<".">>) THEN <<>>
    ELSE IF os_path_isdir(joinstr(p, f)) THEN <<f \o <<sep>>>>
    ELSE IF \E i \in 1..Len(filters) : endswith(f, filters[i]) THEN <<f>>
    ELSE <<>>

RECURSIVE options_of(_, _)
options_of(p, names) ==
    IF Len(names) = 0 THEN <<>>
    ELSE option_of(p, names[1]) \o options_of(p, Tail(names))

listing(w) ==
    IF os_path_isdir(path(w)) THEN options_of(path(w), sorted(os_listdir(path(w))))
    ELSE <<>>

RECURSIVE set_main_value(_, _)
RECURSIVE set_path_text(_, _)
RECURSIVE make_options(_)
RECURSIVE move_down(_, _)

make_options_silent(w) ==
    LET out == listing(w)
        w2 == set_main_value(w, <<>>)
    IN [w2 EXCEPT !.main_options = out]

make_options(w) ==
    LET w1 == fs_done_callback(w, FALSE)
        out == listing(w1)
        w2 == set_main_value(w1, <<>>)
    IN [w2 EXCEPT !.main_options = out]

move_down_notifies_directory(w, new) ==
    IF Len(new) > 0
    THEN LET fn == new[1]
         IN IF endswith(fn, <<sep>>)
            THEN fs_done_callback(make_options(set_path_text(w, path(w) \o fn)), TRUE)
            ELSE IF os_path_isfile(url(w).v.v) THEN fs_done_callback(w, TRUE)
            ELSE w
    ELSE w

\* one event of main.value, event.new = new
move_down(w, new) ==
    IF Len(new) > 0
    THEN LET fn == new[1]
         IN IF endswith(fn, <<sep>>)
            THEN make_options(set_path_text(w, path(w) \o fn))
            ELSE IF os_path_isfile(url(w).v.v) THEN fs_done_callback(w, TRUE)
            ELSE w
    ELSE w

\* main.value = v: the watchers of FileSelector.setup (move_down), then of
\* CatAdder.setup (remove_error), when the value changes
set_main_value(w, v) ==
    IF v = w.main_value THEN w
    ELSE LET w1 == move_down([w EXCEPT !.main_value = v], v)
         IN IF w1.watching THEN remove_error(w1) ELSE w1

set_path_text_always(w, v) ==
    make_options(validate([w EXCEPT !.path_text = v]))

\* path_text.value = v: the watchers validate, then make_options, when it changes
set_path_text(w, v) ==
    IF v = w.path_text THEN w
    ELSE make_options(validate([w EXCEPT !.path_text = v]))

move_up(w) ==
    set_path_text(w, os_path_dirname(rstrip(path(w), sep)) \o <<sep>>)

go_home(w) ==
    set_path_text(w, os_getcwd \o <<sep>>)

fs_getstate(w) ==
    [path |-> path(w), selected |-> selected(w)]

fs_setstate_unwatched(w, state) ==
    LET w1 == [w EXCEPT !.path_text = state.path]
    IN IF state.selected.t = "list" THEN set_main_value(w1, state.selected.v)
       ELSE [w1 EXCEPT !.err = "ValueError"]

\* path_text.value, then main.value, are assigned; main.value is a param.List,
\* which refuses (ValueError) a value that is no list
fs_setstate(w, state) ==
    LET w1 == set_path_text(w, state.path)
    IN IF state.selected.t = "list" THEN set_main_value(w1, state.selected.v)
       ELSE [w1 EXCEPT !.err = "ValueError"]

(***************************************************************************)
(* URLSelector.                                                            *)
(***************************************************************************)
\* url.main.value = v: the watcher of CatAdder.setup (remove_error)
set_url_value(w, v) ==
    IF v = w.url_value THEN w
    ELSE LET w1 == [w EXCEPT !.url_value = v]
         IN IF w1.watching THEN remove_error(w1) ELSE w1

url_getstate(w) ==
    [url |-> w.url_value]

url_setstate(w, state) ==
    set_url_value(w, state.url)

(***************************************************************************)
(* CatAdder.                                                               *)
(***************************************************************************)
uSX == <<"s", ":", "x">>

\* the locations intake.open_catalog opens; every other location fails
Catalogs == {<<sep>> \o nA \o <<sep>> \o nBYml, uSX}

open_catalog(loc) ==
    IF loc \in Catalogs THEN [raised |-> "none", v |-> [location |-> loc]]
    ELSE [raised |-> "CatalogError", v |-> [location |-> <<>>]]

\* CatAdder.setup: new tabs (active 0), a new validator, the watchers registered
setup(w) ==
    [w EXCEPT !.active = 0, !.validator = FALSE, !.watching = TRUE]

\* Base.unwatch
unwatch(w) ==
    [w EXCEPT !.watching = FALSE]

\* Base.visible = v: setup when shown with an empty panel, unwatch and clear
\* the panel when hidden; the panel is populated exactly while watching
set_visible(w, v) ==
    LET w1 == [w EXCEPT !.visible = v]
    IN IF v /\ ~w1.watching THEN setup(w1)
       ELSE IF ~v /\ w1.watching THEN unwatch(w1)
       ELSE w1

cat_url(w) ==
    IF w.active = 0 THEN url(w) ELSE Return(PyStr(w.url_value))

tab_change_no_enable(w, new) ==
    remove_error(w)

tab_change(w, new) ==
    LET w1 == remove_error(w)
    IN IF new = 1 THEN [w1 EXCEPT !.widget_disabled = FALSE] ELSE w1

\* tabs.active = i: the watcher of CatAdder.setup (tab_change)
set_active(w, i) ==
    IF i = w.active THEN w
    ELSE LET w1 == [w EXCEPT !.active = i]
         IN IF w1.watching THEN tab_change(w1, i) ELSE w1

\* the except branch of add_cat
add_cat_except(w, e) ==
    [w EXCEPT !.validator = TRUE, !.err = e]

add_cat_hide_first(w) ==
    LET u == cat_url(w)
    IN IF u.raised # "none" THEN add_cat_except(w, u.raised)
       ELSE LET c == open_catalog(u.v.v)
                w1 == [w EXCEPT !.opened = @ + 1]
            IN IF c.raised # "none" THEN add_cat_except(w1, c.raised)
               ELSE LET w2 == set_visible(w1, FALSE)
                    IN [w2 EXCEPT !.called = Append(@, [cat |-> c.v, visible |-> w2.visible])]

add_cat_swallow(w) ==
    LET u == cat_url(w)
    IN IF u.raised # "none" THEN [w EXCEPT !.validator = TRUE]
       ELSE LET c == open_catalog(u.v.v)
                w1 == [w EXCEPT !.opened = @ + 1]
            IN IF c.raised # "none" THEN [w1 EXCEPT !.validator = TRUE]
               ELSE set_visible([w1 EXCEPT !.called =
                                    Append(@, [cat |-> c.v, visible |-> w1.visible])],
                                FALSE)

\* self.cat is evaluated (cat_url, then open_catalog), done_callback is called
\* with it, then visible is set; any exception sets the error icon and is raised
add_cat(w) ==
    LET u == cat_url(w)
    IN IF u.raised # "none" THEN add_cat_except(w, u.raised)
       ELSE LET c == open_catalog(u.v.v)
                w1 == [w EXCEPT !.opened = @ + 1]
            IN IF c.raised # "none" THEN add_cat_except(w1, c.raised)
               ELSE set_visible([w1 EXCEPT !.called =
                                    Append(@, [cat |-> c.v, visible |-> w1.visible])],
                                FALSE)

\* tabs is set by setup, which __init__ runs, so 'self.tabs.active if self.tabs'
\* reads the index
adder_getstate(w) ==
    [visible |-> w.visible, local |-> fs_getstate(w), remote |-> url_getstate(w),
     active |-> w.active]

adder_setstate(w, state) ==
    LET w1 == fs_setstate(w, state.local)
    IN IF w1.err # "none" THEN w1
       ELSE LET w2 == url_setstate(w1, state.remote)
                w3 == set_visible(w2, state.visible)
            IN IF w3.visible THEN set_active(w3, state.active) ELSE w3

(***************************************************************************)
(* The lazy proxy of intake/gui/__init__.py.                               *)
(*   panel_env   what 'import panel' finds: installed or not, its version, *)
(*               and whether the GUI module then initialises               *)
(*   instance    InstanceMaker._instance: None, or the GUI object made,    *)
(*               with its class and the number of the construction that    *)
(*               made it                                                   *)
(*   imports     the number of calls of do_import                          *)
(*   accesses    the number of uses of the proxy so far                    *)
(*   outcome     what the last use of the proxy did                        *)
(***************************************************************************)
RECURSIVE VersionLess(_, _)
VersionLess(a, b) ==
    IF Len(a) = 0 THEN Len(b) > 0
    ELSE IF Len(b) = 0 THEN FALSE
    ELSE IF a[1] # b[1] THEN a[1] < b[1]
    ELSE VersionLess(Tail(a), Tail(b))

\* LooseVersion("0.9.5") of do_import
required_version == <<0, 9, 5>>

\* the versions the two RuntimeError messages name
install_message == [text |-> "Please install panel to use the GUI", names |-> <<0, 8, 0>>]
init_message == [text |-> "Initialisation of GUI failed", names |-> <<0, 9, 5>>]

\* the class do_import returns
do_import(env) ==
    LET error == ~env.installed
        too_old == env.installed /\ VersionLess(env.version, required_version)
    IN IF too_old \/ error THEN "GUI_install_stub"
       ELSE IF env.gui_ok THEN "GUI"
       ELSE "GUI_init_stub"

none_instance == [class |-> "None", serial |-> 0]

instantiate_always(p) ==
    [instance |-> [class |-> do_import(p.env), serial |-> p.imports + 1],
     imports |-> p.imports + 1, env |-> p.env]

\* InstanceMaker._instantiate
instantiate(p) ==
    IF p.instance = none_instance
    THEN [instance |-> [class |-> do_import(p.env), serial |-> p.imports + 1],
          imports |-> p.imports + 1, env |-> p.env]
    ELSE p

IsStub(i) == i.class \in {"GUI_install_stub", "GUI_init_stub"}

\* the names asked of the proxy: __getattr__ runs only for names the proxy
\* itself lacks, so none of them is a name every object has
Attrs == {"panel", "show"}

\* repr(instance): the stubs' __repr__ raises
repr_of(i) ==
    IF i.class = "GUI_install_stub" THEN [raised |-> "RuntimeError", msg |-> install_message]
    ELSE IF i.class = "GUI_init_stub" THEN [raised |-> "RuntimeError", msg |-> init_message]
    ELSE [raised |-> "none", msg |-> [text |-> "", names |-> <<>>]]

\* getattr(instance, attr): a stub has only what object has
getattr_of(i, attr) ==
    IF IsStub(i)
    THEN [raised |-> "AttributeError", msg |-> [text |-> "", names |-> <<>>]]
    ELSE [raised |-> "none", msg |-> [text |-> "", names |-> <<>>]]

\* instance[item]: a stub defines no __getitem__
getitem_of(i) ==
    IF IsStub(i) THEN [raised |-> "TypeError", msg |-> [text |-> "", names |-> <<>>]]
    ELSE [raised |-> "none", msg |-> [text |-> "", names |-> <<>>]]

\* dir(instance): object.__dir__ answers for the stubs too
dir_of(i) ==
    [raised |-> "none", msg |-> [text |-> "", names |-> <<>>]]

Versions == {<<0, 8, 0>>, <<0, 9, 4>>, <<0, 9, 5>>, <<1, 0, 0>>}
Envs == {[installed |-> FALSE, version |-> <<>>, gui_ok |-> FALSE]}
        \cup [installed : {TRUE}, version : Versions, gui_ok : BOOLEAN]

proxy == [instance |-> instance, imports |-> imports, env |-> panel_env]

\* what a use of the proxy leaves behind: the instance it was forwarded to and
\* what the forwarded operation did
used(op, attr, p, result) ==
    [op |-> op, attr |-> attr, on |-> p.instance,
     raised |-> result.raised, msg |-> result.msg]

\* InstanceMaker.__getattr__
GetAttr(attr) ==
    /\ accesses < MaxAccess
    /\ LET p == instantiate(proxy)
       IN /\ instance' = p.instance
          /\ imports' = p.imports
          /\ outcome' = used("getattr", attr, p, getattr_of(p.instance, attr))
    /\ accesses' = accesses + 1
    /\ UNCHANGED <<panel_env, gui, last>>

\* InstanceMaker.__getitem__
GetItem ==
    /\ accesses < MaxAccess
    /\ LET p == instantiate(proxy)
       IN /\ instance' = p.instance
          /\ imports' = p.imports
          /\ outcome' = used("getitem", "", p, getitem_of(p.instance))
    /\ accesses' = accesses + 1
    /\ UNCHANGED <<panel_env, gui, last>>

\* InstanceMaker.__repr__
Repr ==
    /\ accesses < MaxAccess
    /\ LET p == instantiate(proxy)
       IN /\ instance' = p.instance
          /\ imports' = p.imports
          /\ outcome' = used("repr", "", p, repr_of(p.instance))
    /\ accesses' = accesses + 1
    /\ UNCHANGED <<panel_env, gui, last>>

\* InstanceMaker.__dir__
Dir ==
    /\ accesses < MaxAccess
    /\ LET p == instantiate(proxy)
       IN /\ instance' = p.instance
          /\ imports' = p.imports
          /\ outcome' = used("dir", "", p, dir_of(p.instance))
    /\ accesses' = accesses + 1
    /\ UNCHANGED <<panel_env, gui, last>>

(***************************************************************************)
(* The widgets' events and calls.                                          *)
(***************************************************************************)
\* FileSelector(), URLSelector() and CatAdder() as their constructors leave them
new_gui ==
    LET w0 == [path_text |-> os_getcwd \o <<sep>>, fs_validator |-> FALSE,
               main_value |-> <<>>, main_options |-> <<>>, url_value |-> <<>>,
               widget_disabled |-> TRUE, active |-> 0, validator |-> FALSE,
               visible |-> FALSE, watching |-> FALSE,
               called |-> <<>>, opened |-> 0, fired |-> <<>>, err |-> "none"]
    IN [set_visible(make_options(w0), TRUE) EXCEPT !.fired = <<>>]

\* the start of a call: nothing raised, nothing notified yet
Begin(w) == [w EXCEPT !.err = "none", !.fired = <<>>, !.called = <<>>, !.opened = 0]

\* the paths typed into the path field, the URLs typed into the URL field
pA == <<sep>> \o nA
pZZ == <<sep, "z", "z">>
TypedPaths == {pA, pZZ, <<>>}
TypedUrls == {uSX}

\* the selections of at most MaxSel entries the list can report, in list order
RECURSIVE SubSeqs(_)
SubSeqs(s) ==
    IF Len(s) = 0 THEN {<<>>}
    ELSE LET rest == SubSeqs(Tail(s))
         IN rest \cup {<<s[1]>> \o r : r \in rest}

Selections(w) == {x \in SubSeqs(w.main_options) : Len(x) <= MaxSel}

\* the snapshots handed to __setstate__
FsSnapshots == {[path |-> os_getcwd \o <<sep>>, selected |-> PyList(<<>>)],
                [path |-> os_getcwd \o <<sep>>, selected |-> PyStr(nBYml)],
                [path |-> <<sep>>, selected |-> PyList(<<>>)]}
UrlSnapshots == {[url |-> <<>>], [url |-> uSX]}
AdderSnapshots == [visible : BOOLEAN, local : FsSnapshots, remote : UrlSnapshots,
                   active : {0, 1}]

\* last names the handler that ran last
Did(op) == last' = op

\* the user edits the path field (an event only when the text changes)
TypePath(p) ==
    /\ p # gui.path_text
    /\ gui' = set_path_text(Begin(gui), p)
    /\ Did("type_path")
    /\ UNCHANGED proxyVars

\* the up button is clicked
ClickUp ==
    /\ gui' = move_up(Begin(gui))
    /\ Len(gui'.path_text) <= MaxPath
    /\ Did("move_up")
    /\ UNCHANGED proxyVars

\* the home button is clicked
ClickHome ==
    /\ gui' = go_home(Begin(gui))
    /\ Did("go_home")
    /\ UNCHANGED proxyVars

\* the list reports a new selection (an event only when it changes)
Select(sel) ==
    /\ sel # gui.main_value
    /\ gui' = set_main_value(Begin(gui), sel)
    /\ Len(gui'.path_text) <= MaxPath
    /\ Did("select")
    /\ UNCHANGED proxyVars

\* the user edits the URL field
TypeUrl(u) ==
    /\ u # gui.url_value
    /\ gui' = set_url_value(Begin(gui), u)
    /\ Did("type_url")
    /\ UNCHANGED proxyVars

\* the user switches tab; the tabs are on screen while the panel is populated
SwitchTab(i) ==
    /\ gui.visible
    /\ i # gui.active
    /\ gui' = set_active(Begin(gui), i)
    /\ Did("tab")
    /\ UNCHANGED proxyVars

\* the Add Catalog button is clicked: add_cat is the watcher of its clicks,
\* registered by setup and removed when the component is hidden
AddCat ==
    /\ gui.watching
    /\ gui' = add_cat(Begin(gui))
    /\ Did("add_cat")
    /\ UNCHANGED proxyVars

\* fs.__setstate__(state)
FsSetState(state) ==
    /\ gui' = fs_setstate(Begin(gui), state)
    /\ Did("fs_setstate")
    /\ UNCHANGED proxyVars

\* url.__setstate__(state)
UrlSetState(state) ==
    /\ gui' = url_setstate(Begin(gui), state)
    /\ Did("url_setstate")
    /\ UNCHANGED proxyVars

\* CatAdder.__setstate__(state)
AdderSetState(state) ==
    /\ gui' = adder_setstate(Begin(gui), state)
    /\ Did("adder_setstate")
    /\ UNCHANGED proxyVars

no_outcome == [op |-> "none", attr |-> "", on |-> none_instance, raised |-> "none",
               msg |-> [text |-> "", names |-> <<>>]]

Init ==
    /\ gui = new_gui
    /\ last = "init"
    /\ panel_env = [installed |-> FALSE, version |-> <<>>, gui_ok |-> FALSE]
    /\ instance = none_instance
    /\ imports = 0
    /\ accesses = 0
    /\ outcome = no_outcome

Next ==
    \/ \E p \in TypedPaths : TypePath(p)
    \/ ClickUp
    \/ ClickHome
    \/ \E sel \in Selections(gui) : Select(sel)
    \/ \E u \in TypedUrls : TypeUrl(u)
    \/ \E i \in {0, 1} : SwitchTab(i)
    \/ AddCat
    \/ \E state \in FsSnapshots : FsSetState(state)
    \/ \E state \in UrlSnapshots : UrlSetState(state)
    \/ \E state \in AdderSnapshots : AdderSetState(state)

Spec == Init /\ [][Next]_vars

InitProxy ==
    /\ gui = new_gui
    /\ last = "init"
    /\ panel_env \in Envs
    /\ instance = none_instance
    /\ imports = 0
    /\ accesses = 0
    /\ outcome = no_outcome

NextProxy ==
    \/ \E attr \in Attrs : GetAttr(attr)
    \/ GetItem
    \/ Repr
    \/ Dir

SpecProxy == InitProxy /\ [][NextProxy]_vars

(***************************************************************************)
(* Properties.                                                             *)
(***************************************************************************)
\* the location confirm reads opens as a catalog
Openable(w) ==
    /\ cat_url(w).raised = "none"
    /\ open_catalog(cat_url(w).v.v).raised = "none"

\* the first selected entry is a file that exists
FileSelected(w) ==
    /\ Len(w.main_value) > 0
    /\ ~endswith(w.main_value[1], <<sep>>)
    /\ os_path_isfile(url(w).v.v)

\* C1: when confirm (add_cat) is invoked and the catalog at the active tab's
\* location opens, done_callback is called exactly once, with the catalog opened
\* from that location and while the component is still visible; then the
\* component is hidden, the call returns normally, the catalog was opened once
\* and the call does not set the error indicator.
C1_ConfirmSuccess ==
    [][(last' = "add_cat" /\ Openable(gui)) =>
          /\ gui'.err = "none"
          /\ gui'.called = <<[cat |-> open_catalog(cat_url(gui).v.v).v,
                              visible |-> gui.visible]>>
          /\ gui.visible /\ ~gui'.visible
          /\ gui'.opened = 1
          /\ gui'.validator = gui.validator]_vars

C1_Witness ==
    /\ last = "add_cat"
    /\ gui.err = "none"
    /\ Len(gui.called) = 1
    /\ gui.called[1].visible
    /\ ~gui.visible
    /\ ~gui.validator

\* C2: when confirm (add_cat) is invoked and the catalog cannot be built, the
\* failure reaches the caller, done_callback is not called, visible is
\* unchanged, the error indicator is set and the catalog is not opened again.
C2_ConfirmFailure ==
    [][(last' = "add_cat" /\ ~Openable(gui)) =>
          /\ gui'.err = IF cat_url(gui).raised # "none" THEN cat_url(gui).raised
                        ELSE open_catalog(cat_url(gui).v.v).raised
          /\ gui'.err # "none"
          /\ gui'.called = <<>>
          /\ gui'.visible = gui.visible
          /\ gui'.validator
          /\ gui'.opened <= 1]_vars

C2_Witness ==
    /\ last = "add_cat"
    /\ gui.err = "CatalogError"
    /\ gui.called = <<>>
    /\ gui.opened = 1
    /\ gui.visible
    /\ gui.validator

\* C3: a CatAdder starts with the local tab active and confirm disabled; every
\* selection event whose first entry is an existing file leaves confirm enabled;
\* every typed path, move up, go home or entered directory that changes the
\* current directory leaves the selection empty and confirm disabled.
C3_SelectEnablesClearDisables ==
    [][/\ (last = "init" => gui.widget_disabled /\ gui.active = 0)
       /\ (last' = "select" /\ FileSelected(gui') => ~gui'.widget_disabled)
       /\ (/\ last' \in {"type_path", "move_up", "go_home", "select"}
           /\ gui'.path_text # gui.path_text
           => gui'.main_value = <<>> /\ gui'.widget_disabled)]_vars

C3_Witness ==
    /\ last = "select"
    /\ FileSelected(gui)
    /\ gui.fired = <<TRUE>>
    /\ ~gui.widget_disabled
    /\ gui.active = 0

\* C4: every change of the active tab clears the error indicator, and when the
\* new tab is the remote one (index 1) confirm is enabled afterwards, whatever
\* it was before and whatever the selection and the URL text are.
C4_TabSwitch ==
    [][gui'.active # gui.active =>
          /\ ~gui'.validator
          /\ (gui'.active = 1 => ~gui'.widget_disabled)]_vars

C4_Witness ==
    /\ last = "tab"
    /\ gui.active = 1
    /\ ~gui.widget_disabled
    /\ ~gui.validator
    /\ gui.main_value = <<>>
    /\ gui.url_value = <<>>

\* C5: for every reachable state, capturing the state of the FileSelector, the
\* URLSelector and the CatAdder and restoring it into a fresh component of the
\* same kind succeeds and yields a component whose captured state is the
\* snapshot.
C5_RoundTrip ==
    /\ LET r == fs_setstate(new_gui, fs_getstate(gui))
       IN r.err = "none" /\ fs_getstate(r) = fs_getstate(gui)
    /\ LET r == url_setstate(new_gui, url_getstate(gui))
       IN r.err = "none" /\ url_getstate(r) = url_getstate(gui)
    /\ LET r == adder_setstate(new_gui, adder_getstate(gui))
       IN r.err = "none" /\ adder_getstate(r) = adder_getstate(gui)

\* C6 as claimed: FileSelector.__setstate__ is a pure assignment: it never calls
\* done_callback, neither with False nor with True, so it leaves confirm's
\* disabled flag as it was.
C6_RestoreSilent ==
    [][last' = "fs_setstate" =>
          /\ gui'.fired = <<>>
          /\ gui'.widget_disabled = gui.widget_disabled]_vars

\* C6 as amended: FileSelector.__setstate__ with a captured snapshot never calls
\* done_callback with True; when the snapshot's path differs from the text of
\* the path field it calls done_callback(False) exactly once, which empties the
\* selection and leaves confirm disabled; when the path is the same text it
\* calls nothing and leaves confirm's disabled flag as it was.
C6_RestoreNotifiesOnPathChange ==
    [][last' = "fs_setstate" =>
          IF gui'.path_text # gui.path_text
          THEN /\ gui'.fired = <<FALSE>>
               /\ gui'.main_value = <<>>
               /\ gui'.widget_disabled
          ELSE /\ gui'.fired = <<>>
               /\ gui'.widget_disabled = gui.widget_disabled]_vars

C6_Witness ==
    /\ last = "fs_setstate"
    /\ gui.fired = <<FALSE>>
    /\ gui.path_text = <<sep>>
    /\ gui.widget_disabled
    /\ gui.active = 1

\* C7: the proxy runs the factory (do_import, then the constructor) at no time
\* before its first use, exactly once at its first use, and forwards that and
\* every later use to the one instance the first use made.
C7_FactoryOnce ==
    /\ accesses = 0 => imports = 0 /\ instance = none_instance
    /\ accesses > 0 =>
          /\ imports = 1
          /\ instance = [class |-> do_import(panel_env), serial |-> 1]
          /\ outcome.on = instance

C7_Witness ==
    /\ accesses = MaxAccess
    /\ imports = 1
    /\ instance.serial = 1
    /\ outcome.on = instance

\* panel is missing or older than required, or the GUI failed to initialise
BadPanel == do_import(panel_env) # "GUI"

\* C8: when panel is missing, too old, or the GUI fails to initialise, every use
\* of the proxy (getattr, getitem, repr, dir) fails with the RuntimeError whose
\* message names the version do_import requires.
C8_EveryUseFails ==
    (BadPanel /\ accesses > 0) =>
        /\ outcome.raised = "RuntimeError"
        /\ outcome.msg.names = required_version

\* C9: FileSelector.url is path joined with the first selected entry when there
\* is one and None, without an exception, when nothing is selected; so cat_url
\* on the local tab is None when nothing is selected, and confirm there does
\* not fail on reading it.
C9_UrlOrAbsent ==
    /\ Len(gui.main_value) > 0 =>
          url(gui) = Return(PyStr(joinstr(path(gui), gui.main_value[1])))
    /\ Len(gui.main_value) = 0 =>
          /\ url(gui) = Return(PyNone)
          /\ gui.active = 0 => cat_url(gui) = Return(PyNone)

\* a directory text with exactly one separator at its end
OneTrailingSep(p) ==
    /\ endswith(p, <<sep>>)
    /\ ~endswith(p, <<sep, sep>>)

\* C10: move_up sets the current directory to the parent, with exactly one
\* trailing separator: /a/b/ gives /a/, /a/ gives /, and / stays /.
C10_MoveUp ==
    [][last' = "move_up" =>
          /\ OneTrailingSep(path(gui'))
          /\ path(gui) = pA \o <<sep>> \o nB \o <<sep>> => path(gui') = pA \o <<sep>>
          /\ path(gui) = pA \o <<sep>> => path(gui') = <<sep>>
          /\ path(gui) = <<sep>> => path(gui') = <<sep>>]_vars

\* the elements of a sequence
Range(s) == {s[i] : i \in 1..Len(s)}

\* what the directory p shows: its subdirectories, marked with the separator,
\* and its files that end with a filter, the names starting with a dot left out
VisibleEntries(p) ==
    LET d == components(p)
        below(S) == {x[Len(x)] : x \in {y \in S : /\ Len(y) = Len(d) + 1
                                                  /\ SubSeq(y, 1, Len(d)) = d}}
        shown(S) == {n \in below(S) : n[1] # "."}
    IN {n \o <<sep>> : n \in shown(FsDirs)} \cup
       {n \in shown(FsFiles) : \E i \in 1..Len(filters) : endswith(n, filters[i])}

\* C11 as claimed: the list is exactly the non-hidden subdirectories (with the
\* separator suffix) and the non-hidden files ending with a filter, and the
\* entries as displayed, suffixes included, are in lexicographic order; the
\* list of an invalid directory is empty; a refresh leaves the selection empty.
C11_ListingDisplayedSorted ==
    /\ os_path_isdir(path(gui)) =>
          /\ Range(gui.main_options) = VisibleEntries(path(gui))
          /\ \A i, j \in 1..Len(gui.main_options) :
                i < j => StrLess(gui.main_options[i], gui.main_options[j])
    /\ ~os_path_isdir(path(gui)) => gui.main_options = <<>>
    /\ (last \in {"type_path", "move_up", "go_home", "select"} /\ FALSE \in Range(gui.fired))
          => gui.main_value = <<>>

\* C11 as amended: the list is exactly the non-hidden subdirectories (with the
\* separator suffix) and the non-hidden files ending with a filter, each once,
\* in lexicographic order of the names without the suffix; the list of an
\* invalid directory is empty; a refresh leaves the selection empty.
C11_ListingSortedByName ==
    /\ os_path_isdir(path(gui)) =>
          /\ Range(gui.main_options) = VisibleEntries(path(gui))
          /\ \A i, j \in 1..Len(gui.main_options) :
                i < j => StrLess(rstrip(gui.main_options[i], sep),
                                 rstrip(gui.main_options[j], sep))
    /\ ~os_path_isdir(path(gui)) => gui.main_options = <<>>
    /\ (last \in {"type_path", "move_up", "go_home", "select"} /\ FALSE \in Range(gui.fired))
          => gui.main_value = <<>>

C11_Witness ==
    /\ last = "move_up"
    /\ gui.fired = <<FALSE>>
    /\ path(gui) = pA \o <<sep>>
    /\ gui.main_options = <<nB \o <<sep>>, nBYml, nCYaml>>
    /\ gui.main_value = <<>>

\* C12: after every change of the path text (typed, move up, go home, entering
\* a listed directory, __setstate__) the FileSelector's error indicator is set
\* exactly when the current directory is not a valid directory; an indicator
\* that is set does not stop the next change: go home from an invalid
\* directory lands in the working directory with the indicator cleared, and a
\* typed path is taken as typed.
C12_ValidatorTracksDirectory ==
    [][/\ gui'.path_text # gui.path_text =>
             gui'.fs_validator = ~os_path_isdir(path(gui'))
       /\ (gui.fs_validator /\ last' = "go_home") =>
             /\ path(gui') = os_getcwd \o <<sep>>
             /\ ~gui'.fs_validator
       /\ (gui.fs_validator /\ last' = "type_path") =>
             /\ gui'.path_text \in TypedPaths \ {gui.path_text}
             /\ gui'.fs_validator = ~os_path_isdir(path(gui'))]_vars

C12_Witness ==
    /\ last = "type_path"
    /\ gui.path_text = pZZ
    /\ ~os_path_isdir(path(gui))
    /\ gui.fs_validator
    /\ gui.main_options = <<>>

\* C13: CatAdder.__setstate__(state) restores both children from state.local
\* and state.remote, sets visible from the state, and assigns the active tab
\* from the state exactly when the restored visible flag is true; when it is
\* false the active tab is left as it was.
C13_AdderRestore ==
    [][last' = "adder_setstate" =>
          \A state \in AdderSnapshots :
             gui' = adder_setstate(Begin(gui), state) =>
                /\ gui'.err = "none"
                /\ fs_getstate(gui') = state.local
                /\ url_getstate(gui') = state.remote
                /\ gui'.visible = state.visible
                /\ state.visible => gui'.active = state.active
                /\ ~state.visible => gui'.active = gui.active]_vars

\* C14: while the CatAdder is shown with its error indicator set, every edit of
\* the path text, of the list selection or of the URL text clears the
\* indicator, and afterwards, on the local tab, confirm is enabled exactly when
\* a file is selected.
C14_EditClearsError ==
    [][(/\ gui.visible /\ gui.validator
        /\ last' \in {"type_path", "select", "type_url"}) =>
          /\ ~gui'.validator
          /\ gui'.active = 0 => (~gui'.widget_disabled <=> FileSelected(gui'))]_vars

\* C15: a selection event of the list (move_down): when the first entry of the
\* new selection is a directory marker, the current directory becomes the old
\* one followed by that entry, the list is the listing of the new directory,
\* the selection is empty and done_callback(True) is not called; when it is an
\* existing file, done_callback is called once, with True, and the directory
\* and the list are unchanged; an empty new selection calls nothing and leaves
\* directory, list, error indicator and confirm as they were.
C15_MoveDown ==
    [][last' = "select" =>
          \A sel \in Selections(gui) :
             gui' = set_main_value(Begin(gui), sel) =>
                IF Len(sel) > 0 /\ endswith(sel[1], <<sep>>)
                THEN /\ path(gui') = path(gui) \o sel[1]
                     /\ os_path_isdir(path(gui'))
                     /\ Range(gui'.main_options) = VisibleEntries(path(gui'))
                     /\ gui'.main_value = <<>>
                     /\ TRUE \notin Range(gui'.fired)
                ELSE IF Len(sel) > 0 /\ os_path_isfile(joinstr(path(gui), sel[1]))
                THEN /\ gui'.fired = <<TRUE>>
                     /\ gui'.path_text = gui.path_text
                     /\ gui'.main_options = gui.main_options
                     /\ gui'.main_value = sel
                ELSE /\ Len(sel) = 0
                     /\ gui'.fired = <<>>
                     /\ gui'.path_text = gui.path_text
                     /\ gui'.main_options = gui.main_options
                     /\ gui'.fs_validator = gui.fs_validator
                     /\ gui'.widget_disabled = gui.widget_disabled]_vars

C15_Witness ==
    /\ last = "select"
    /\ path(gui) = pA \o <<sep>> \o nB \o <<sep>>
    /\ gui.main_options = <<nDYaml>>
    /\ gui.main_value = <<>>
    /\ gui.fired = <<FALSE, FALSE>>

\* the calls of FileSelector.done_callback of this call: at least one, all False
NotifiedFalseOnly(w) ==
    /\ Len(w.fired) > 0
    /\ \A i \in 1..Len(w.fired) : w.fired[i] = FALSE

\* what an assignment of the path text leaves behind
DirectorySet(w) ==
    /\ endswith(path(w), <<sep>>)
    /\ path(w) = IF endswith(w.path_text, <<sep>>) THEN w.path_text
                 ELSE w.path_text \o <<sep>>
    /\ w.main_options = (IF os_path_isdir(path(w))
                         THEN options_of(path(w), sorted(os_listdir(path(w)))) ELSE <<>>)
    /\ w.main_value = <<>>
    /\ NotifiedFalseOnly(w)

\* C16 as claimed: after any assignment of the path text (typed, move up, go
\* home), path ends with the separator, appended when the text lacks it, the
\* list is the listing of that directory, the selection is empty and
\* done_callback has been called with False and never with True.
C16_AnyAssignment ==
    [][last' \in {"type_path", "move_up", "go_home"} => DirectorySet(gui')]_vars

\* C16 as amended: the same after any assignment that changes the path text;
\* an assignment of the text the field already holds calls nothing and leaves
\* list, selection and confirm as they were.
C16_ChangingAssignment ==
    [][last' \in {"type_path", "move_up", "go_home"} =>
          IF gui'.path_text # gui.path_text THEN DirectorySet(gui')
          ELSE /\ gui'.fired = <<>>
               /\ gui'.main_options = gui.main_options
               /\ gui'.main_value = gui.main_value
               /\ gui'.widget_disabled = gui.widget_disabled]_vars

C16_Witness ==
    /\ last = "type_path"
    /\ gui.path_text = pA
    /\ path(gui) = pA \o <<sep>>
    /\ gui.fired = <<FALSE>>
    /\ gui.main_value = <<>>
    /\ gui.main_options = <<nB \o <<sep>>, nBYml, nCYaml>>

\* C17: in every state, when the component is shown with the local tab active
\* and confirm enabled, a file is selected in the FileSelector (its url is a
\* selected, existing file).
C17_EnabledMeansFileSelected ==
    (gui.visible /\ gui.active = 0 /\ ~gui.widget_disabled) => FileSelected(gui)

====
